---- MODULE Spec2Model ----
(***************************************************************************)
(* The user purge of src/v1/purge-user.py (main) over the resource calls   *)
(* of src/lib/purge.py, run against a remote store of users, teams,        *)
(* access roles, policies and applications.                                *)
(*                                                                         *)
(* The remote store is the environment of the script.  It is modelled as   *)
(* the link tables the script's comments name (userTeamLink, userRoleLink, *)
(* teamRoleLink: purge-user.py line 81), the policies with their ordered   *)
(* rules, and the applications with their policyId.  What a fetch returns  *)
(* (teamIds, accessRoleIds, emails) is a view of those tables.  A mutating *)
(* request either is applied or is answered with an error status and       *)
(* changes nothing; the script reads no status (purge.py lines 56, 80).    *)
(*                                                                         *)
(* The device-tag update of src/device-tag-update.py (main, run_updates)   *)
(* is a second program with its own specification, SpecDevice: it reads a  *)
(* CSV of MAC addresses and tags, looks each MAC up among the registered   *)
(* devices, and sends a PUT for each row whose tag differs.  MAC addresses *)
(* and tags are sequences of characters, so that normalization and         *)
(* truncation are computed as the script computes them.                    *)
(***************************************************************************)
EXTENDS Integers, Sequences, FiniteSets, TLC

\* ------------------------------------------------------------------ ids
U == "U"
V == "V"
Users == {U, V}
TeamOrder == <<"T1", "T2">>
RoleOrder == <<"R1", "R2">>
PolicyOrder == <<"P1", "P2">>
AppOrder == <<"A1", "A2">>
NoPolicy == "none"

Range(seq) == {seq[i] : i \in 1..Len(seq)}
Teams == Range(TeamOrder)
Roles == Range(RoleOrder)
Policies == Range(PolicyOrder)
Apps == Range(AppOrder)

\* The most mutating requests the remote store answers with an error in one run.
MaxFailures == 2

\* ------------------------------------------------------------ variables
VARIABLES
  store,               \* the remote store
  store0,              \* the remote store when the run started
  pc,                  \* the position of main
  dryrun,              \* argsdict['dryrun']
  teamIds,             \* user.get('teamIds', [])
  accessRoleIds,       \* user.get('accessRoleIds')
  deletablePolicyIds,  \* line 70
  deletableAppIds,     \* line 71
  log,                 \* every purgeResource / updateResource call, in order
  sent,                \* the calls that went out as HTTP DELETE / PUT
  results,             \* for each sent call, whether the store applied it
  omitEmpty,           \* whether the store's JSON leaves out a field that is empty
  run,                 \* 1 for the first run of the script, 2 for a second one
  firstLog,            \* the log of the first run, once a second one started
  phase                \* for each call of the log, the position of main that made it

purgeVars == <<store, store0, pc, dryrun, teamIds, accessRoleIds,
               deletablePolicyIds, deletableAppIds, log, sent, results,
               omitEmpty, run, firstLog, phase>>

\* The state of src/device-tag-update.py.
VARIABLES
  csv,                 \* the data rows of the CSV file: mac_address and tag cells
  all_devices,         \* what fetch_all_registered_devices returns
  dry_run,             \* args_dict['dry_run']
  dpc,                 \* the position of main and of the loop of run_updates
  rows_resolved,       \* line 399
  apply_blocked,       \* line 404
  idx,                 \* the row run_updates is at
  puts                 \* the put_device_tag calls made, in order

devVars == <<csv, all_devices, dry_run, dpc, rows_resolved, apply_blocked, idx, puts>>

vars == <<purgeVars, devVars>>

\* While the purge runs, the device-tag update is not running.
DevIdle ==
  /\ csv = <<>>
  /\ all_devices = <<>>
  /\ dry_run = TRUE
  /\ dpc = "idle"
  /\ rows_resolved = <<>>
  /\ apply_blocked = FALSE
  /\ idx = 0
  /\ puts = <<>>

\* ------------------------------------------------------------- helpers
RECURSIVE Dedup(_)
Dedup(seq) ==
  IF seq = <<>> THEN <<>>
  ELSE LET front == Dedup(SubSeq(seq, 1, Len(seq) - 1))
           last == seq[Len(seq)]
       IN IF last \in Range(front) THEN front ELSE Append(front, last)

RECURSIVE Flatten(_)
Flatten(seqs) ==
  IF seqs = <<>> THEN <<>> ELSE Head(seqs) \o Flatten(Tail(seqs))

RoleUnion(rules) == UNION Range(rules)

NumFailed(rs) == Cardinality({i \in 1..Len(rs) : ~rs[i]})

\* --------------------------------------------------- the remote's views
UserTeamIds(s) == SelectSeq(TeamOrder, LAMBDA t : <<U, t>> \in s.userTeam)
UserRoleIds(s) == SelectSeq(RoleOrder, LAMBDA r : <<U, r>> \in s.userRole)
TeamEmails(s, t) == {u \in Users : <<u, t>> \in s.userTeam}
TeamRoleIds(s, t) == {r \in Roles : <<t, r>> \in s.teamRole}
RoleEmails(s, r) == {u \in Users : <<u, r>> \in s.userRole}
RoleTeamIds(s, r) == {t \in Teams : <<t, r>> \in s.teamRole}

\* getResources(url): every entity of the collection, in the store's order.
getApps(s) == SelectSeq(AppOrder, LAMBDA a : a \in DOMAIN s.appPolicy)
getPolicies(s) == SelectSeq(PolicyOrder, LAMBDA p : p \in DOMAIN s.policies)
getTeams(s) == SelectSeq(TeamOrder, LAMBDA t : t \in s.teams)
getRoles(s) == SelectSeq(RoleOrder, LAMBDA r : r \in s.roles)

\* A fetched entity has no such key when the store leaves empty fields out:
\* user.get('accessRoleIds') and pydash.get(entity, field) are then None.
userRolesMissing(omit, s) == omit /\ UserRoleIds(s) = <<>>
teamEmailsMissing(omit, s, t) == omit /\ TeamEmails(s, t) = {}
teamRolesMissing(omit, s, t) == omit /\ TeamRoleIds(s, t) = {}
roleEmailsMissing(omit, s, r) == omit /\ RoleEmails(s, r) = {}
roleTeamsMissing(omit, s, r) == omit /\ RoleTeamIds(s, r) = {}
rulesMissing(omit, s, p) == omit /\ s.policies[p] = <<>>

\* ---------------------------------------------------------- the calls
Call(kind, url, id, ids, rules) ==
  [kind |-> kind, url |-> url, id |-> id, ids |-> ids, rules |-> rules]

\* purgeResource(dryrun, id, url): logged as "Delete".
Delete(url, id) == Call("Delete", url, id, <<>>, <<>>)
\* purgeResource(dryrun, id, url, data): logged as "Remove".
Remove(url, id, ids) == Call("Remove", url, id, ids, <<>>)
\* The policy passed as data (purge-user.py lines 129, 152), and data.pop('id')
\* (purge.py line 38).
policyData(p, rules) == [id |-> p, rules |-> rules]
popId(data) == [k \in DOMAIN data \ {"id"} |-> data[k]]
\* updateResource(dryrun, id, url, data): logged as "Update", sent without the id.
Update(url, id, data) ==
  [kind |-> "Update", url |-> url, id |-> id, ids |-> <<>>,
   rules |-> popId(data).rules, data |-> popId(data)]

\* The effect of a DELETE request the store applies (purge.py lines 73-79).
DeleteEffect(s, c) ==
  CASE c.kind = "Delete" /\ c.url = "applications" ->
         [s EXCEPT !.appPolicy =
            [a \in DOMAIN s.appPolicy \ {c.id} |-> s.appPolicy[a]]]
    [] c.kind = "Delete" /\ c.url = "policies" ->
         [s EXCEPT !.policies =
            [p \in DOMAIN s.policies \ {c.id} |-> s.policies[p]]]
    [] c.kind = "Delete" /\ c.url = "teams" ->
         [s EXCEPT !.teams = @ \ {c.id},
                   !.userTeam = {l \in @ : l[2] # c.id},
                   !.teamRole = {l \in @ : l[1] # c.id}]
    [] c.kind = "Delete" /\ c.url = "accessRoles" ->
         [s EXCEPT !.roles = @ \ {c.id},
                   !.userRole = {l \in @ : l[2] # c.id},
                   !.teamRole = {l \in @ : l[2] # c.id}]
    [] c.kind = "Delete" /\ c.url = "users" ->
         [s EXCEPT !.user = FALSE,
                   !.userTeam = {l \in @ : l[1] # c.id},
                   !.userRole = {l \in @ : l[1] # c.id}]
    [] c.kind = "Remove" /\ c.url = "teams/users" ->
         [s EXCEPT !.userTeam = {l \in @ : ~(l[2] = c.id /\ l[1] \in Range(c.ids))}]
    [] c.kind = "Remove" /\ c.url = "accessRoles/users" ->
         [s EXCEPT !.userRole = {l \in @ : ~(l[2] = c.id /\ l[1] \in Range(c.ids))}]
    [] c.kind = "Remove" /\ c.url = "accessRoles/teams" ->
         [s EXCEPT !.teamRole = {l \in @ : ~(l[2] = c.id /\ l[1] \in Range(c.ids))}]
    [] OTHER -> s

\* The effect of a PUT request the store applies (purge.py lines 49-55).
PutEffect(s, c) ==
  IF c.id \in DOMAIN s.policies
  THEN [s EXCEPT !.policies[c.id] = c.rules]
  ELSE s

\* Mutant: the dry-run return of lines 66-71 is missing.
purgeResource_NoDryRun(dry, s, c, ok) ==
  IF ok THEN DeleteEffect(s, c) ELSE s
\* purgeResource: in dry-run the call is logged and returns before the request.
purgeResource(dry, s, c, ok) ==
  IF dry THEN s ELSE IF ok THEN DeleteEffect(s, c) ELSE s

\* Mutant: updateResource without the dry-run return of line 43.
updateResource_NoDryRun(dry, s, c, ok) ==
  IF ok THEN PutEffect(s, c) ELSE s
\* updateResource: in dry-run the call is logged and returns before the request.
updateResource(dry, s, c, ok) ==
  IF dry THEN s ELSE IF ok THEN PutEffect(s, c) ELSE s

\* The store after main made `calls` in order; oks[i] is the store's answer to call i.
RECURSIVE RunCalls(_, _, _, _)
RunCalls(dry, s, calls, oks) ==
  IF calls = <<>> THEN s
  ELSE RunCalls(dry,
                IF Head(calls).kind = "Update"
                THEN updateResource(dry, s, Head(calls), Head(oks))
                ELSE purgeResource(dry, s, Head(calls), Head(oks)),
                Tail(calls), Tail(oks))

\* The requests that leave the process: none in dry-run (purge.py lines 42-47, 66-71).
Requests(dry, calls) == IF dry THEN <<>> ELSE calls

\* ------------------------------------------------- main, phase by phase
\* Lines 41-51: policyAppMapper, keyed by policyId in the order apps name them.
policyAppMapperKeys(s) ==
  Dedup(SelectSeq([i \in 1..Len(getApps(s)) |-> s.appPolicy[getApps(s)[i]]],
                  LAMBDA p : p # NoPolicy))
policyAppIds(s, p) == SelectSeq(getApps(s), LAMBDA a : s.appPolicy[a] = p)

\* Mutant: line 64 with == in place of <=.
policyDeletable_SameSet(rules, userRoles) == RoleUnion(rules) = Range(userRoles)
\* Lines 56-67: set(policyRoleIds) <= set(accessRoleIds).
policyDeletable(rules, userRoles) == RoleUnion(rules) \subseteq Range(userRoles)

\* Lines 69-71.
PlanDeletablePolicyIds(s, userRoles) ==
  SelectSeq(policyAppMapperKeys(s),
            LAMBDA p : policyDeletable(s.policies[p], userRoles))
\* Mutant: line 71 takes the applications of every policy of the mapper.
PlanDeletableAppIds_AllWithPolicy(s, userRoles) ==
  Flatten([i \in 1..Len(policyAppMapperKeys(s)) |->
             policyAppIds(s, policyAppMapperKeys(s)[i])])
PlanDeletableAppIds(s, userRoles) ==
  LET ps == PlanDeletablePolicyIds(s, userRoles)
  IN Flatten([i \in 1..Len(ps) |-> policyAppIds(s, ps[i])])

\* Mutant: the policies are deleted before the applications.
AppPolicyCalls_PoliciesFirst(appIds, policyIds) ==
  [i \in 1..Len(policyIds) |-> Delete("policies", policyIds[i])]
  \o [i \in 1..Len(appIds) |-> Delete("applications", appIds[i])]
\* Lines 73-79.
AppPolicyCalls(appIds, policyIds) ==
  [i \in 1..Len(appIds) |-> Delete("applications", appIds[i])]
  \o [i \in 1..Len(policyIds) |-> Delete("policies", policyIds[i])]

\* Mutant: line 86, the unlink of the teams from the role, is missing.
UnlinkCalls_NoRoleTeams(tIds, rIds) ==
  [i \in 1..Len(tIds) |-> Remove("teams/users", tIds[i], <<U>>)]
  \o [i \in 1..Len(rIds) |-> Remove("accessRoles/users", rIds[i], <<U>>)]
\* Lines 81-86.
UnlinkCalls(tIds, rIds) ==
  [i \in 1..Len(tIds) |-> Remove("teams/users", tIds[i], <<U>>)]
  \o Flatten([i \in 1..Len(rIds) |->
       <<Remove("accessRoles/users", rIds[i], <<U>>),
         Remove("accessRoles/teams", rIds[i], tIds)>>])

\* Mutant: line 95 without the test of the team's roles.
teamDeletable_EmailsOnly(s, t, rIds) ==
  TeamEmails(s, t) \ {U} = {}
\* Mutant: line 95 without the test of the team's emails.
teamDeletable_RolesOnly(s, t, rIds) ==
  TeamRoleIds(s, t) \ Range(rIds) = {}
\* Line 95.
teamDeletable(s, t, rIds) ==
  /\ TeamEmails(s, t) \ {U} = {}
  /\ TeamRoleIds(s, t) \ Range(rIds) = {}
\* Line 105.
roleDeletable(s, r, tIds) ==
  /\ RoleEmails(s, r) \ {U} = {}
  /\ RoleTeamIds(s, r) \ Range(tIds) = {}

\* Lines 88-107.
deletableTeamIds(s, tIds, rIds) == SelectSeq(tIds, LAMBDA t : teamDeletable(s, t, rIds))
deletableRoleIds(s, tIds, rIds) == SelectSeq(rIds, LAMBDA r : roleDeletable(s, r, tIds))
\* Mutant: lines 108-109 unlink the user from a team before deleting it.
TeamRoleCalls_WithUnlink(s, tIds, rIds) ==
  Flatten([i \in 1..Len(deletableTeamIds(s, tIds, rIds)) |->
             <<Remove("teams/users", deletableTeamIds(s, tIds, rIds)[i], <<U>>),
               Delete("teams", deletableTeamIds(s, tIds, rIds)[i])>>])
  \o [i \in 1..Len(deletableRoleIds(s, tIds, rIds)) |->
        Delete("accessRoles", deletableRoleIds(s, tIds, rIds)[i])]
\* Lines 108-111.
TeamRoleCalls(s, tIds, rIds) ==
  LET ts == deletableTeamIds(s, tIds, rIds)
      rs == deletableRoleIds(s, tIds, rIds)
  IN [i \in 1..Len(ts) |-> Delete("teams", ts[i])]
     \o [i \in 1..Len(rs) |-> Delete("accessRoles", rs[i])]

\* Lines 126-135: whether the sweep rewrites the rule, and to what.
ruleTouched(rule, userRoles) ==
  LET remaining == rule \ Range(userRoles)
  IN \/ remaining # {} /\ Cardinality(rule) # Cardinality(remaining)
     \/ remaining = {}
shrinkRule(rule, userRoles) ==
  IF ruleTouched(rule, userRoles) THEN rule \ Range(userRoles) ELSE rule

\* Lines 129-135: the policy enters updatablePolicyDataSet.
policyUpdatable(rules, userRoles) ==
  \E i \in 1..Len(rules) : ruleTouched(rules[i], userRoles)
\* Lines 137-143: the policy enters the sweep's deletablePolicyIds.
sweepDeletable(rules, userRoles) ==
  \/ RoleUnion(rules) \subseteq Range(userRoles)
  \/ RoleUnion(rules) = {}
\* Mutant: line 151 keeps the rules whose accessRoleIds is empty.
newRules_KeepEmpty(rules, userRoles) ==
  [i \in 1..Len(rules) |-> shrinkRule(rules[i], userRoles)]
\* Lines 150-152: the rules of the update payload.
newRules(rules, userRoles) ==
  SelectSeq([i \in 1..Len(rules) |-> shrinkRule(rules[i], userRoles)],
            LAMBDA r : Cardinality(r) > 0)

\* Lines 113-156.
PolicySweepCalls(s, userRoles) ==
  LET ups == SelectSeq(getPolicies(s), LAMBDA p :
               /\ policyUpdatable(s.policies[p], userRoles)
               /\ ~sweepDeletable(s.policies[p], userRoles))
      dels == SelectSeq(getPolicies(s), LAMBDA p :
               sweepDeletable(s.policies[p], userRoles))
  IN [i \in 1..Len(ups) |->
        Update("policies", ups[i],
               policyData(ups[i], newRules(s.policies[ups[i]], userRoles)))]
     \o [i \in 1..Len(dels) |-> Delete("policies", dels[i])]

\* Mutant: line 164 takes every team with no member but the user.
orphanTeamIds_NoOthers(s) == SelectSeq(getTeams(s), LAMBDA t : TeamEmails(s, t) \ {U} = {})
\* Lines 158-168: teamEmails == [userId].
orphanTeamIds(s) == SelectSeq(getTeams(s), LAMBDA t : TeamEmails(s, t) = {U})
OrphanTeamCalls(s) ==
  [i \in 1..Len(orphanTeamIds(s)) |-> Remove("teams/users", orphanTeamIds(s)[i], <<U>>)]

\* Line 186.
UserCalls == <<Delete("users", U)>>

\* Lines 170-181.
orphanRoleIds(s, tIds) ==
  SelectSeq(getRoles(s), LAMBDA r :
    RoleEmails(s, r) = {U} /\ RoleTeamIds(s, r) \ Range(tIds) = {})
\* Mutant: the user is deleted before the orphan roles.
OrphanRoleCalls_UserFirst(s, tIds) ==
  UserCalls \o
  [i \in 1..Len(orphanRoleIds(s, tIds)) |-> Delete("accessRoles", orphanRoleIds(s, tIds)[i])]
OrphanRoleCalls(s, tIds) ==
  [i \in 1..Len(orphanRoleIds(s, tIds)) |-> Delete("accessRoles", orphanRoleIds(s, tIds)[i])]

\* Where main raises TypeError on a None (iterating it, or set(None)).
\* Lines 59 and 64: for rule in rules; set(accessRoleIds).
PlanRaises(omit, s) ==
  \/ \E p \in Range(policyAppMapperKeys(s)) : rulesMissing(omit, s, p)
  \/ policyAppMapperKeys(s) # <<>> /\ userRolesMissing(omit, s)
\* Lines 95 and 105: set(teamEmails), set(teamRoleIds), set(roleEmails),
\* set(roleTeamIds); the right operand of `and` is evaluated when the left holds.
TeamsRaise(omit, s, tIds, rIds) ==
  \/ \E t \in Range(tIds) :
       \/ teamEmailsMissing(omit, s, t)
       \/ TeamEmails(s, t) \ {U} = {} /\ teamRolesMissing(omit, s, t)
  \/ \E r \in Range(rIds) :
       \/ roleEmailsMissing(omit, s, r)
       \/ RoleEmails(s, r) \ {U} = {} /\ roleTeamsMissing(omit, s, r)
\* Line 121: enumerate(rules).
SweepRaises(omit, s) == \E p \in DOMAIN s.policies : rulesMissing(omit, s, p)
\* Line 178: set(roleTeamIds), evaluated when roleEmails == [userId].
OrphanRolesRaise(omit, s) ==
  \E r \in s.roles : RoleEmails(s, r) = {U} /\ roleTeamsMissing(omit, s, r)

\* ------------------------------------------------------- initial stores
\* V is a second user: it may share team T2 and role R2 with U.
UserTeamLinks == {<<U, "T1">>, <<U, "T2">>, <<V, "T2">>}
UserRoleLinks == {<<U, "R1">>, <<U, "R2">>, <<V, "R2">>}
TeamRoleLinks == Teams \X Roles

\* The rule lists a policy starts with.
RuleChoices ==
  { <<>>, <<{}>>, <<{"R1"}>>, <<{"R2"}>>, <<{"R1", "R2"}>>,
    <<{"R1"}, {"R2"}>>, <<{"R1", "R2"}, {"R1"}>> }

PolicyTables ==
  UNION {[ps -> RuleChoices] : ps \in {{}, {"P1"}, {"P1", "P2"}}}

\* Every application names an existing policy or none.
AppTables(policies) ==
  {f \in [Apps -> Policies \cup {NoPolicy}] :
     \A a \in Apps : f[a] = NoPolicy \/ f[a] \in DOMAIN policies}

\* The graph of spec scenario A, and the policies of scenarios A and C.
CoreUserTeam == {<<U, "T1">>}
CoreUserRole == {{<<U, "R1">>}, {<<U, "R1">>, <<U, "R2">>, <<V, "R2">>}}
CoreTeamRole == {<<"T1", "R1">>}
CorePolicies ==
  { [p \in {"P1"} |-> <<{"R1"}>>],
    [p \in {"P1", "P2"} |-> IF p = "P1" THEN <<{"R1"}>> ELSE <<{"R1"}, {"R2"}>>] }
CoreApps == [a \in Apps |-> IF a = "A1" THEN "P1" ELSE NoPolicy]

Stores ==
  {s \in [user : {TRUE}, teams : {Teams}, roles : {Roles},
          userTeam : SUBSET UserTeamLinks,
          userRole : SUBSET UserRoleLinks,
          teamRole : SUBSET TeamRoleLinks,
          policies : PolicyTables,
          appPolicy : [Apps -> Policies \cup {NoPolicy}]] :
     /\ s.appPolicy \in AppTables(s.policies)
     /\ \/ s.policies \in CorePolicies /\ s.appPolicy = CoreApps
        \/ /\ s.userTeam = CoreUserTeam
           /\ s.userRole \in CoreUserRole
           /\ s.teamRole = CoreTeamRole}

Init ==
  /\ store \in Stores
  /\ store0 = store
  /\ pc = "start"
  /\ dryrun \in BOOLEAN
  /\ teamIds = <<>>
  /\ accessRoleIds = <<>>
  /\ deletablePolicyIds = <<>>
  /\ deletableAppIds = <<>>
  /\ log = <<>>
  /\ sent = <<>>
  /\ results = <<>>
  /\ omitEmpty \in BOOLEAN
  /\ run = 1
  /\ firstLog = <<>>
  /\ phase = <<>>
  /\ DevIdle

\* --------------------------------------------------------------- actions
\* main makes `calls` in order and moves on to `next`; the store answers each
\* request with success or with an error status, which main does not read.
Issue(calls, next) ==
  /\ \E oks \in [1..Len(calls) -> BOOLEAN] :
       /\ dryrun => \A i \in 1..Len(calls) : oks[i]
       /\ NumFailed(results) + NumFailed(oks) <= MaxFailures
       /\ store' = RunCalls(dryrun, store, calls, oks)
       /\ sent' = sent \o Requests(dryrun, calls)
       /\ results' = results \o Requests(dryrun, oks)
  /\ log' = log \o calls
  /\ phase' = phase \o [i \in 1..Len(calls) |-> pc]
  /\ pc' = next
  /\ UNCHANGED <<store0, dryrun, teamIds, accessRoleIds,
                 deletablePolicyIds, deletableAppIds, omitEmpty, run, firstLog>>
  /\ UNCHANGED devVars

\* Lines 34-71: fetch the user, the apps and their policies; pick what to delete.
FetchAndPlan ==
  /\ pc = "start"
  /\ store.user
  /\ \A p \in Range(policyAppMapperKeys(store)) : p \in DOMAIN store.policies
  /\ ~PlanRaises(omitEmpty, store)
  /\ teamIds' = UserTeamIds(store)
  /\ accessRoleIds' = UserRoleIds(store)
  /\ deletablePolicyIds' = PlanDeletablePolicyIds(store, UserRoleIds(store))
  /\ deletableAppIds' = PlanDeletableAppIds(store, UserRoleIds(store))
  /\ pc' = "apps"
  /\ UNCHANGED <<store, store0, dryrun, log, sent, results, omitEmpty, run, firstLog, phase>>
  /\ UNCHANGED devVars

\* getResource raises (purge.py lines 22-23): main ends at the fetch of the
\* user or a policy (lines 34, 57) or of a team or a role (lines 91, 101).
FetchError ==
  /\ \/ pc = "start"
     \/ pc = "teams" /\ (teamIds # <<>> \/ accessRoleIds # <<>>)
  /\ pc' = "aborted"
  /\ UNCHANGED <<store, store0, dryrun, teamIds, accessRoleIds,
                 deletablePolicyIds, deletableAppIds, log, sent, results,
                 omitEmpty, run, firstLog, phase>>
  /\ UNCHANGED devVars

\* Whether main, at pcv, reads a None where it needs a collection.
Raises(pcv) ==
  CASE pcv = "start" -> PlanRaises(omitEmpty, store)
    [] pcv = "teams" -> TeamsRaise(omitEmpty, store, teamIds, accessRoleIds)
    [] pcv = "policies" -> SweepRaises(omitEmpty, store)
    [] pcv = "orphanRoles" -> OrphanRolesRaise(omitEmpty, store)
    [] OTHER -> FALSE

\* main ends with a TypeError before it makes the calls of the phase.
TypeError ==
  /\ Raises(pc)
  /\ pc' = "raised"
  /\ UNCHANGED <<store, store0, dryrun, teamIds, accessRoleIds,
                 deletablePolicyIds, deletableAppIds, log, sent, results,
                 omitEmpty, run, firstLog, phase>>
  /\ UNCHANGED devVars

\* accessRoleIds is None: the user fetched at line 34 had no such key.
accessRoleIdsIsNone == userRolesMissing(omitEmpty, store0)

\* Lines 73-79.
DeleteAppsAndPolicies ==
  /\ pc = "apps"
  /\ Issue(AppPolicyCalls(deletableAppIds, deletablePolicyIds), "unlink")

\* Lines 81-86; `for roleId in accessRoleIds` raises on None after the team loop.
RemoveLinks ==
  /\ pc = "unlink"
  /\ Issue(UnlinkCalls(teamIds, accessRoleIds),
           IF accessRoleIdsIsNone THEN "raised" ELSE "teams")

\* Lines 88-111.
DeleteTeamsAndRoles ==
  /\ pc = "teams"
  /\ Range(teamIds) \subseteq store.teams
  /\ Range(accessRoleIds) \subseteq store.roles
  /\ ~Raises(pc)
  /\ Issue(TeamRoleCalls(store, teamIds, accessRoleIds), "policies")

\* Lines 113-156.
SweepPolicies ==
  /\ pc = "policies"
  /\ ~Raises(pc)
  /\ Issue(PolicySweepCalls(store, accessRoleIds), "orphanTeams")

\* Lines 158-168.
SweepOrphanTeams ==
  /\ pc = "orphanTeams"
  /\ Issue(OrphanTeamCalls(store), "orphanRoles")

\* Lines 170-181.
SweepOrphanRoles ==
  /\ pc = "orphanRoles"
  /\ ~Raises(pc)
  /\ Issue(OrphanRoleCalls(store, teamIds), "user")

\* Line 186.
DeleteUser ==
  /\ pc = "user"
  /\ Issue(UserCalls, "done")

\* The script is run again, as a dry run, on the store a dry run left.
SecondDryRun ==
  /\ pc = "done" /\ dryrun /\ run = 1
  /\ run' = 2
  /\ firstLog' = log
  /\ phase' = <<>>
  /\ store0' = store
  /\ pc' = "start"
  /\ teamIds' = <<>>
  /\ accessRoleIds' = <<>>
  /\ deletablePolicyIds' = <<>>
  /\ deletableAppIds' = <<>>
  /\ log' = <<>>
  /\ sent' = <<>>
  /\ results' = <<>>
  /\ UNCHANGED <<store, dryrun, omitEmpty>>
  /\ UNCHANGED devVars

Next ==
  \/ FetchAndPlan
  \/ FetchError
  \/ TypeError
  \/ SecondDryRun
  \/ DeleteAppsAndPolicies
  \/ RemoveLinks
  \/ DeleteTeamsAndRoles
  \/ SweepPolicies
  \/ SweepOrphanTeams
  \/ SweepOrphanRoles
  \/ DeleteUser

Spec == Init /\ [][Next]_vars

\* A whole dry run's log from store s: the store never changes, so every phase
\* reads s (purge-user.py lines 34-186 with purgeResource returning at line 71).
DryLog(s) ==
  LET tIds == UserTeamIds(s)
      rIds == UserRoleIds(s)
  IN AppPolicyCalls(PlanDeletableAppIds(s, rIds), PlanDeletablePolicyIds(s, rIds))
     \o UnlinkCalls(tIds, rIds)
     \o TeamRoleCalls(s, tIds, rIds)
     \o PolicySweepCalls(s, rIds)
     \o OrphanTeamCalls(s)
     \o OrphanRoleCalls(s, tIds)
     \o UserCalls

\* =========================================== src/device-tag-update.py
\* MAC addresses and tags are strings, written as sequences of characters.
HexChars == {"0", "1", "2", "3", "4", "5", "6", "7", "8", "9",
             "a", "b", "c", "d", "e", "f"}
PyNone == "None"

\* str.lower() on the letters the inputs use.
lowerChar(ch) ==
  CASE ch = "A" -> "a" [] ch = "B" -> "b" [] ch = "C" -> "c"
    [] ch = "D" -> "d" [] ch = "E" -> "e" [] ch = "F" -> "f"
    [] ch = "Z" -> "z" [] OTHER -> ch
lower(s) == [i \in 1..Len(s) |-> lowerChar(s[i])]

\* str.strip().
RECURSIVE lstrip(_)
lstrip(s) == IF s # <<>> /\ Head(s) = " " THEN lstrip(Tail(s)) ELSE s
RECURSIVE rstrip(_)
rstrip(s) ==
  IF s # <<>> /\ s[Len(s)] = " " THEN rstrip(SubSeq(s, 1, Len(s) - 1)) ELSE s
strip(s) == rstrip(lstrip(s))

\* Lines 129-138: twelve hex digits become six colon-separated pairs; any
\* other string is returned stripped and lowered.
MacHexLen == 12
normalize_mac(mac) ==
  LET raw == lower(strip(mac))
      hex_only == SelectSeq(raw, LAMBDA ch : ch \in HexChars)
  IN IF Len(hex_only) = MacHexLen
     THEN [i \in 1..(MacHexLen + (MacHexLen \div 2) - 1) |->
             IF i % 3 = 0 THEN ":" ELSE hex_only[i - (i \div 3)]]
     ELSE raw

\* Lines 122-126: a deviceTag object shown as its displayName, else its id.
tag_display(tag_obj) ==
  IF tag_obj.none THEN <<>>
  ELSE IF tag_obj.displayName # <<>> THEN tag_obj.displayName
  ELSE tag_obj.id

\* s[:w]
TagWidth == 32
Truncate(s, w) == SubSeq(s, 1, IF Len(s) < w THEN Len(s) ELSE w)

\* Lines 163-183: the first device seen with a MAC keeps it; a MAC seen again
\* on a device with another id is recorded as a duplicate.
DeviceMacs(devices) ==
  Flatten([i \in 1..Len(devices) |->
            [j \in 1..Len(devices[i].macAddresses) |->
               [dev |-> devices[i], mac |-> devices[i].macAddresses[j]]]])
RECURSIVE buildFrom(_, _)
buildFrom(pairs, acc) ==
  IF pairs = <<>> THEN acc
  ELSE LET dev == Head(pairs).dev
           norm == normalize_mac(Head(pairs).mac)
           m2d == acc.mac_to_device
           dups == acc.duplicate_backend_macs
           ids == {m2d[norm].id, dev.id}
           next ==
             IF norm = <<>> THEN acc
             ELSE IF norm \in DOMAIN m2d
               THEN IF m2d[norm].id # dev.id
                    THEN [acc EXCEPT !.duplicate_backend_macs =
                            IF norm \in DOMAIN dups
                            THEN [dups EXCEPT ![norm] = @ \cup ids]
                            ELSE (norm :> ids) @@ dups]
                    ELSE acc
               ELSE [acc EXCEPT !.mac_to_device = (norm :> dev) @@ m2d]
       IN buildFrom(Tail(pairs), next)
build_mac_to_device(devices) ==
  buildFrom(DeviceMacs(devices),
            [mac_to_device |-> [m \in {} |-> m],
             duplicate_backend_macs |-> [m \in {} |-> {}]])

\* Lines 207-226: rows with a normalized MAC and a stripped tag; a row with an
\* empty MAC cell is left out.
load_csv(cells) ==
  SelectSeq([i \in 1..Len(cells) |->
               [mac |-> normalize_mac(strip(cells[i].mac_address)),
                tag |-> strip(cells[i].tag)]],
            LAMBDA r : r.mac # <<>>)

\* Lines 229-246: the first row of each normalized MAC is kept.
RECURSIVE sanitizeFrom(_, _, _)
sanitizeFrom(rows, seen, sanitized) ==
  IF rows = <<>> THEN sanitized
  ELSE LET mac == normalize_mac(Head(rows).mac)
       IN IF mac = <<>> \/ mac \in seen
          THEN sanitizeFrom(Tail(rows), seen, sanitized)
          ELSE sanitizeFrom(Tail(rows), seen \cup {mac},
                            Append(sanitized, [mac |-> mac, tag |-> Head(rows).tag]))
sanitize_csv_rows(rows) == sanitizeFrom(rows, {}, <<>>)

\* Lines 249-281.  updated_tag is <<>> for None and <<tag>> for a tag.
resolve_row(mac, new_tag, mac_to_device) ==
  LET norm == normalize_mac(mac)
      out == [mac |-> mac, new_tag |-> new_tag, device_id |-> PyNone,
              current_tag |-> <<>>, error |-> PyNone, mac_matched |-> FALSE,
              updated_tag |-> <<>>, update_error |-> PyNone]
  IN IF norm \notin DOMAIN mac_to_device
     THEN [out EXCEPT !.error = "device not found"]
     ELSE [out EXCEPT
             !.device_id = mac_to_device[norm].id,
             !.current_tag = Truncate(tag_display(mac_to_device[norm].deviceTag), TagWidth),
             !.mac_matched = TRUE]

\* Mutant: run_updates without the dry-run test of line 300.
updateRow_NoDryRun(r, dry, ok) ==
  LET base == [r EXCEPT !.updated_tag = <<>>, !.update_error = PyNone]
  IN IF r.error # PyNone \/ r.device_id \in {PyNone, ""}
     THEN [row |-> base, put |-> FALSE]
     ELSE IF ~r.mac_matched
     THEN [row |-> [base EXCEPT !.update_error = "skipped (MAC not in device)"],
           put |-> FALSE]
     ELSE IF r.current_tag = r.new_tag
     THEN [row |-> [base EXCEPT !.update_error = "No change"], put |-> FALSE]
     ELSE IF ok
     THEN [row |-> [base EXCEPT !.updated_tag = <<r.new_tag>>], put |-> TRUE]
     ELSE [row |-> [base EXCEPT !.update_error = "Error"], put |-> TRUE]
\* Mutant: run_updates without the equal-tag test of line 297.
updateRow_NoChangeSent(r, dry, ok) ==
  LET base == [r EXCEPT !.updated_tag = <<>>, !.update_error = PyNone]
  IN IF r.error # PyNone \/ r.device_id \in {PyNone, ""}
     THEN [row |-> base, put |-> FALSE]
     ELSE IF ~r.mac_matched
     THEN [row |-> [base EXCEPT !.update_error = "skipped (MAC not in device)"],
           put |-> FALSE]
     ELSE IF dry
     THEN [row |-> base, put |-> FALSE]
     ELSE IF ok
     THEN [row |-> [base EXCEPT !.updated_tag = <<r.new_tag>>], put |-> TRUE]
     ELSE [row |-> [base EXCEPT !.update_error = "Error"], put |-> TRUE]
\* Lines 289-307, one row of the loop: the row as run_updates leaves it, and
\* whether put_device_tag was called; ok is whether the PUT returned normally.
updateRow(r, dry, ok) ==
  LET base == [r EXCEPT !.updated_tag = <<>>, !.update_error = PyNone]
  IN IF r.error # PyNone \/ r.device_id \in {PyNone, ""}
     THEN [row |-> base, put |-> FALSE]
     ELSE IF ~r.mac_matched
     THEN [row |-> [base EXCEPT !.update_error = "skipped (MAC not in device)"],
           put |-> FALSE]
     ELSE IF r.current_tag = r.new_tag
     THEN [row |-> [base EXCEPT !.update_error = "No change"], put |-> FALSE]
     ELSE IF dry
     THEN [row |-> base, put |-> FALSE]
     ELSE IF ok
     THEN [row |-> [base EXCEPT !.updated_tag = <<r.new_tag>>], put |-> TRUE]
     ELSE [row |-> [base EXCEPT !.update_error = "Error"], put |-> TRUE]

\* Lines 325-334: the Status column of format_table.
Status(r) ==
  IF r.error # PyNone THEN r.error
  ELSE IF r.update_error # PyNone THEN r.update_error
  ELSE IF r.updated_tag # <<>> THEN "Updated"
  ELSE IF r.mac_matched THEN "Will update"
  ELSE "Skipped"

\* Mutant: apply blocked by any duplicate backend MAC.
applyBlocked_AnyDuplicate(duplicate_backend_macs, csv_macs, dry) ==
  DOMAIN duplicate_backend_macs # {} /\ ~dry
\* Lines 384-385 and 404.
applyBlocked(duplicate_backend_macs, csv_macs, dry) ==
  {m \in DOMAIN duplicate_backend_macs : m \in csv_macs} # {} /\ ~dry

\* ------------------------------------------------------ device inputs
MacA == <<"a", "a", ":", "0", "0", ":", "0", "0", ":", "0", "0", ":", "0", "0", ":", "0", "1">>
MacADash == <<"A", "A", "-", "0", "0", "-", "0", "0", "-", "0", "0", "-", "0", "0", "-", "0", "1">>
MacB == <<"b", "b", ":", "0", "0", ":", "0", "0", ":", "0", "0", ":", "0", "0", ":", "0", "2">>
MacBad == <<" ", "Z", "Z">>
NoMac == <<>>
Red == <<"r", "e", "d">>
Blue == <<"b", "l", "u", "e">>
LongTag == [i \in 1..(TagWidth + 1) |-> "x"]
NoneTag == [none |-> TRUE, displayName |-> <<>>, id |-> <<>>]
RedTag == [none |-> FALSE, displayName |-> Red, id |-> <<"t", "1">>]
BlueIdTag == [none |-> FALSE, displayName |-> <<>>, id |-> Blue]
LongNameTag == [none |-> FALSE, displayName |-> LongTag, id |-> <<"t", "2">>]

\* The registered devices: D1 and D2, which may share a MAC in two spellings.
D1Macs == {<<MacA>>, <<MacA, MacADash>>, <<MacB, MacA>>}
D2Macs == {<<MacADash>>, <<MacB>>, <<MacBad>>, <<>>}
D1Tags == {NoneTag, RedTag, BlueIdTag, LongNameTag}
D2Tags == {NoneTag}
Backends ==
  {<<[id |-> "D1", macAddresses |-> m1, deviceTag |-> t1],
     [id |-> "D2", macAddresses |-> m2, deviceTag |-> t2]>> :
     <<m1, t1, m2, t2>> \in D1Macs \X D1Tags \X D2Macs \X D2Tags}

\* The CSV file: at most MaxRows data rows, each a mac_address and a tag cell.
MaxRows == 2
RowCells ==
  {[mac_address |-> MacADash, tag |-> Red],
   [mac_address |-> MacADash, tag |-> LongTag],
   [mac_address |-> MacA, tag |-> Blue],
   [mac_address |-> MacB, tag |-> Red],
   [mac_address |-> MacBad, tag |-> Red],
   [mac_address |-> NoMac, tag |-> Red]}
CsvFiles == UNION {[1..n -> RowCells] : n \in 0..MaxRows}

\* While the device-tag update runs, the purge is not running.
PurgeIdle ==
  /\ store = <<>>
  /\ store0 = <<>>
  /\ pc = "idle"
  /\ dryrun = TRUE
  /\ teamIds = <<>>
  /\ accessRoleIds = <<>>
  /\ deletablePolicyIds = <<>>
  /\ deletableAppIds = <<>>
  /\ log = <<>>
  /\ sent = <<>>
  /\ results = <<>>
  /\ omitEmpty = FALSE
  /\ run = 1
  /\ firstLog = <<>>
  /\ phase = <<>>

DevInit ==
  /\ csv \in CsvFiles
  /\ all_devices \in Backends
  /\ dry_run \in BOOLEAN
  /\ dpc = "start"
  /\ rows_resolved = <<>>
  /\ apply_blocked = FALSE
  /\ idx = 0
  /\ puts = <<>>
  /\ PurgeIdle

\* ------------------------------------------------------ device actions
\* Lines 361-365: no row with a MAC address; sys.exit(1).
DevNoRows ==
  /\ dpc = "start"
  /\ sanitize_csv_rows(load_csv(csv)) = <<>>
  /\ dpc' = "exit"
  /\ UNCHANGED <<csv, all_devices, dry_run, rows_resolved, apply_blocked, idx, puts>>
  /\ UNCHANGED purgeVars

\* Lines 372-375: getToken returns nothing; sys.exit(1).
DevNoToken ==
  /\ dpc = "start"
  /\ sanitize_csv_rows(load_csv(csv)) # <<>>
  /\ dpc' = "exit"
  /\ UNCHANGED <<csv, all_devices, dry_run, rows_resolved, apply_blocked, idx, puts>>
  /\ UNCHANGED purgeVars

\* Lines 361-404: load and sanitize the CSV, map the devices by MAC, resolve
\* each row, and decide whether apply is blocked.
DevResolve ==
  /\ dpc = "start"
  /\ LET rows == sanitize_csv_rows(load_csv(csv))
         built == build_mac_to_device(all_devices)
         csv_macs == {normalize_mac(rows[i].mac) : i \in 1..Len(rows)}
     IN /\ rows # <<>>
        /\ rows_resolved' =
             [i \in 1..Len(rows) |->
                resolve_row(rows[i].mac, rows[i].tag, built.mac_to_device)]
        /\ apply_blocked' = applyBlocked(built.duplicate_backend_macs, csv_macs, dry_run)
  /\ idx' = 1
  /\ dpc' = "updates"
  /\ UNCHANGED <<csv, all_devices, dry_run, puts>>
  /\ UNCHANGED purgeVars

\* Mutant: the exception of a PUT is not caught at line 305 and ends the run.
RunUpdatesRow_StopsOnError ==
  /\ dpc = "updates"
  /\ idx <= Len(rows_resolved)
  /\ \E ok \in BOOLEAN :
       LET out == updateRow(rows_resolved[idx], dry_run \/ apply_blocked, ok)
       IN /\ ~out.put => ok
          /\ rows_resolved' = IF ok THEN [rows_resolved EXCEPT ![idx] = out.row]
                                    ELSE rows_resolved
          /\ puts' = IF out.put
                     THEN Append(puts, [row |-> idx,
                                        device_id |-> rows_resolved[idx].device_id,
                                        deviceTag |-> rows_resolved[idx].new_tag,
                                        ok |-> ok])
                     ELSE puts
          /\ dpc' = IF ok THEN dpc ELSE "done"
  /\ idx' = idx + 1
  /\ UNCHANGED <<csv, all_devices, dry_run, apply_blocked>>
  /\ UNCHANGED purgeVars

\* Lines 289-307 called at line 409: one row of run_updates; a PUT that raises
\* is caught and the loop goes on.
RunUpdatesRow ==
  /\ dpc = "updates"
  /\ idx <= Len(rows_resolved)
  /\ \E ok \in BOOLEAN :
       LET out == updateRow(rows_resolved[idx], dry_run \/ apply_blocked, ok)
       IN /\ ~out.put => ok
          /\ rows_resolved' = [rows_resolved EXCEPT ![idx] = out.row]
          /\ puts' = IF out.put
                     THEN Append(puts, [row |-> idx,
                                        device_id |-> rows_resolved[idx].device_id,
                                        deviceTag |-> rows_resolved[idx].new_tag,
                                        ok |-> ok])
                     ELSE puts
  /\ idx' = idx + 1
  /\ UNCHANGED <<csv, all_devices, dry_run, dpc, apply_blocked>>
  /\ UNCHANGED purgeVars

\* Lines 411-416: the loop is over; the table is printed.
DevReport ==
  /\ dpc = "updates"
  /\ idx > Len(rows_resolved)
  /\ dpc' = "done"
  /\ UNCHANGED <<csv, all_devices, dry_run, rows_resolved, apply_blocked, idx, puts>>
  /\ UNCHANGED purgeVars

DevNext ==
  \/ DevNoRows
  \/ DevNoToken
  \/ DevResolve
  \/ RunUpdatesRow
  \/ DevReport

SpecDevice == DevInit /\ [][DevNext]_vars

\* ------------------------------------------------------------- properties
Done == pc = "done"
AllApplied == NumFailed(results) = 0
Targets(kind, url) == {log[i].id : i \in {j \in 1..Len(log) : log[j].kind = kind /\ log[j].url = url}}
Positions(c) == {i \in 1..Len(log) : log[i] = c}

\* C1: in a dry run no DELETE or PUT request is sent and the remote store stays
\* what it was when the run started.
C1_DryRunMutatesNothing ==
  dryrun => sent = <<>> /\ results = <<>> /\ store = store0

\* A finished dry run that logged deletes of an application, a policy, a team and a role.
C1_Witness ==
  /\ dryrun /\ Done
  /\ Targets("Delete", "applications") # {} /\ Targets("Delete", "policies") # {}
  /\ Targets("Delete", "teams") # {} /\ Targets("Delete", "accessRoles") # {}
  /\ Targets("Update", "policies") # {}

\* C2: the delete of the user is issued exactly once, as the last call of a run
\* that reaches its end, and is in no log before the end.
C2_UserDeleteLast ==
  /\ Done => log # <<>> /\ Positions(Delete("users", U)) = {Len(log)}
  /\ ~Done => Positions(Delete("users", U)) = {}

\* A finished real run that issued team, role and policy calls before the user delete.
C2_Witness ==
  /\ Done /\ ~dryrun
  /\ Targets("Delete", "teams") # {} /\ Targets("Delete", "accessRoles") # {}
  /\ Targets("Delete", "policies") # {} /\ Targets("Remove", "teams/users") # {}

\* C3: before every delete of a policy, in the app/policy phase or in the
\* sweep, each application that named the policy has been the target of a delete.
C3_AppsBeforePolicy ==
  \A j \in 1..Len(log) :
    log[j].kind = "Delete" /\ log[j].url = "policies" =>
      \A a \in Apps :
        store0.appPolicy[a] = log[j].id =>
          \E i \in 1..(j - 1) : log[i] = Delete("applications", a)

\* Both applications name one policy, and the policy has been deleted.
C3_Witness ==
  /\ Done
  /\ \E p \in Targets("Delete", "policies") : \A a \in Apps : store0.appPolicy[a] = p

\* Spec scenario A: U alone in team T1 and role R1, T1 linked to R1, policy P1
\* with the one rule [R1], application A1 on P1, and nothing else linked.
ScenarioA ==
  store0 = [user |-> TRUE, teams |-> Teams, roles |-> Roles,
            userTeam |-> {<<U, "T1">>}, userRole |-> {<<U, "R1">>},
            teamRole |-> {<<"T1", "R1">>},
            policies |-> [p \in {"P1"} |-> <<{"R1"}>>],
            appPolicy |-> CoreApps]

\* Spec scenario B: role R2 is held by U and by V.
ScenarioB == {<<U, "R2">>, <<V, "R2">>} \subseteq store0.userRole
\* The policies all of whose rules name R2 and nothing else.
OnlyR2Policies ==
  {p \in DOMAIN store0.policies :
     /\ store0.policies[p] # <<>>
     /\ \A i \in 1..Len(store0.policies[p]) : store0.policies[p][i] = {"R2"}}

\* Spec scenario C: R1 is U's own, R2 is shared with V, P2 has the rules [R1], [R2].
ScenarioC ==
  /\ store0.userRole = {<<U, "R1">>, <<U, "R2">>, <<V, "R2">>}
  /\ "P2" \in DOMAIN store0.policies
  /\ store0.policies["P2"] = <<{"R1"}, {"R2"}>>

\* C4: in scenario B the shared role R2 is not deleted, and a policy whose rules
\* name only R2 is neither deleted nor updated and ends the run unchanged
\* (stated for the runs whose requests the store all applies).
C4_SharedRolePolicySurvives ==
  ScenarioB /\ AllApplied =>
    /\ "R2" \notin Targets("Delete", "accessRoles")
    /\ \A p \in OnlyR2Policies :
         /\ p \notin Targets("Delete", "policies")
         /\ p \notin Targets("Update", "policies")
         /\ p \in DOMAIN store.policies
         /\ store.policies[p] = store0.policies[p]

\* C5: in scenario C the run updates P2 to the one rule [R2] and does not delete P2
\* (stated for the runs whose requests the store all applies).
C5_ScenarioCUpdate ==
  ScenarioC /\ Done /\ AllApplied =>
    /\ Update("policies", "P2", policyData("P2", <<{"R2"}>>)) \in Range(log)
    /\ "P2" \notin Targets("Delete", "policies")

\* The calls of scenario A up to the deletes of T1 and R1.
ScenarioAHead ==
  << Delete("applications", "A1"), Delete("policies", "P1"),
     Remove("teams/users", "T1", <<U>>),
     Remove("accessRoles/users", "R1", <<U>>),
     Remove("accessRoles/teams", "R1", <<"T1">>),
     Delete("teams", "T1"), Delete("accessRoles", "R1") >>
\* The calls a sweep repeats when it still finds P1, T1 or R1 in the store.
ScenarioARepeats ==
  << Delete("policies", "P1"), Remove("teams/users", "T1", <<U>>),
     Delete("accessRoles", "R1") >>

\* C6 as stated: in scenario A the log is exactly delete A1, delete P1, unlink U
\* from T1, unlink U from R1, delete T1, delete R1, delete U (stated for the
\* real runs whose requests the store all applies).
C6_ScenarioAExact ==
  ScenarioA /\ Done /\ ~dryrun /\ AllApplied =>
    log = << Delete("applications", "A1"), Delete("policies", "P1"),
             Remove("teams/users", "T1", <<U>>),
             Remove("accessRoles/users", "R1", <<U>>),
             Delete("teams", "T1"), Delete("accessRoles", "R1"),
             Delete("users", U) >>

\* C6 amended: in scenario A the log starts with delete A1, delete P1, unlink U
\* from T1, unlink U from R1, unlink the teams [T1] from R1, delete T1, delete R1
\* and ends with delete U.  A real run whose requests are all applied issues
\* nothing else; a dry run logs all three repeats in between; otherwise the
\* calls in between are some of the repeats, in their order.
C6_ScenarioAPlan ==
  ScenarioA /\ Done =>
    /\ Len(log) >= 8
    /\ SubSeq(log, 1, 7) = ScenarioAHead
    /\ log[Len(log)] = Delete("users", U)
    /\ ~dryrun /\ AllApplied => Len(log) = 8
    /\ dryrun => SubSeq(log, 8, Len(log) - 1) = ScenarioARepeats
    /\ \E keep \in SUBSET (1..3) :
         SubSeq(log, 8, Len(log) - 1)
           = SelectSeq(ScenarioARepeats,
                       LAMBDA c : \E k \in keep : ScenarioARepeats[k] = c)

\* Scenario A has been run to its end for real with every request applied.
C6_Witness == ScenarioA /\ Done /\ ~dryrun /\ AllApplied /\ Len(sent) = 8

Proj(calls) == [i \in 1..Len(calls) |-> <<calls[i].kind, calls[i].url, calls[i].id>>]

\* C7: the (kind, resource, id) list a dry run logs from a store equals the list
\* of requests a real run sends from the same store; stated for the real runs
\* whose requests are all applied.
C7_DryEqualsReal ==
  Done /\ ~dryrun /\ AllApplied => Proj(sent) = Proj(DryLog(store0))

\* A finished dry run logs DryLog of its store.
DryLogIsTheDryRun == Done /\ dryrun => log = DryLog(store0)

DeletedTeams == Targets("Delete", "teams")
DeletedRoles == Targets("Delete", "accessRoles")

\* C8 as stated: a deleted team or role has no member but U and is linked to no
\* role or team that survives the run (stated for the runs whose requests the
\* store all applies).
C8_NoSurvivingLink ==
  Done /\ AllApplied =>
    /\ \A t \in DeletedTeams :
         /\ TeamEmails(store0, t) \ {U} = {}
         /\ TeamRoleIds(store0, t) \subseteq DeletedRoles
    /\ \A r \in DeletedRoles :
         /\ RoleEmails(store0, r) \ {U} = {}
         /\ RoleTeamIds(store0, r) \subseteq DeletedTeams

\* C8 amended: a deleted team or role has U as its only member, and is linked
\* only to roles U holds (a team) or to teams U is in (a role), whether or not
\* those survive the run.
C8_OnlyUsersOwn ==
  /\ \A t \in DeletedTeams :
       /\ TeamEmails(store0, t) = {U}
       /\ TeamRoleIds(store0, t) \subseteq Range(UserRoleIds(store0))
  /\ \A r \in DeletedRoles :
       /\ RoleEmails(store0, r) = {U}
       /\ RoleTeamIds(store0, r) \subseteq Range(UserTeamIds(store0))

\* A real run deleted a team linked to a role that the run leaves in the store.
C8_Witness ==
  /\ Done /\ ~dryrun
  /\ \E t \in DeletedTeams : \E r \in TeamRoleIds(store0, t) :
       r \notin DeletedRoles /\ r \in store.roles

\* C9: after a real run that reached its end no remaining team and no remaining
\* role lists U in its emails.
C9_NoUserReference ==
  Done /\ ~dryrun =>
    /\ \A t \in store.teams : U \notin TeamEmails(store, t)
    /\ \A r \in store.roles : U \notin RoleEmails(store, r)

\* The same when the store applied every request of the run.
C9_WhenAllApplied == AllApplied => C9_NoUserReference

\* C10: after a real run that reached its end no rule of a remaining policy
\* names a role the run removed from the store, and no remaining policy keeps
\* a rule with an empty role set.
C10_NoDeletedRoleInRules ==
  Done /\ ~dryrun =>
    \A p \in DOMAIN store.policies :
      \A i \in 1..Len(store.policies[p]) :
        /\ store.policies[p][i] \cap (Roles \ store.roles) = {}
        /\ store.policies[p][i] # {}

\* The same when the store applied every request of the run.
C10_WhenAllApplied == AllApplied => C10_NoDeletedRoleInRules

\* C11: after a completed real run no application left in the store has the
\* policyId of a policy the run deleted, whatever the calls returned.
DeletedPolicies == DOMAIN store0.policies \ DOMAIN store.policies
C11_NoAppOfDeletedPolicy ==
  Done /\ ~dryrun =>
    \A a \in DOMAIN store.appPolicy : store.appPolicy[a] \notin DeletedPolicies

\* C12: a policy that some application references is marked deletable in the
\* app/policy phase exactly when the union of the accessRoleIds of its rules
\* is a subset of the user's accessRoleIds.
Planned == pc \notin {"start", "aborted", "raised"}
C12_SubsetLaw ==
  Planned =>
    \A p \in Range(policyAppMapperKeys(store0)) :
      p \in Range(deletablePolicyIds)
        <=> RoleUnion(store0.policies[p]) \subseteq Range(UserRoleIds(store0))
C12_Witness ==
  /\ pc = "apps"
  /\ deletablePolicyIds # <<>>
  /\ \E p \in Range(policyAppMapperKeys(store0)) : p \notin Range(deletablePolicyIds)

\* C13: a request the store rejects is the last request of the run.
C13_StopsAtFailedCall ==
  \A i \in 1..Len(results) : ~results[i] => i = Len(sent)

\* C14: a run that ends with a fetch failure has sent no request and leaves
\* the store as it was.
C14_FetchFailureLeavesStore ==
  pc = "aborted" => sent = <<>> /\ store = store0

\* C15: a missing emails, teamIds, accessRoleIds or rules field never makes
\* the run raise.
C15_NeverRaises == pc # "raised"

\* C16: a second dry run on the store the first dry run left logs the same
\* ordered action list, and the store is still the one the first run found.
C16_SecondDryRunSame ==
  run = 2 /\ Done => log = firstLog /\ store = store0
C16_Witness ==
  run = 2 /\ Done /\ Len(log) >= 4 /\ \E i \in 1..Len(log) : log[i].kind = "Update"

\* C20: the direct team/role cleanup deletes exactly the teams of the user's
\* teamIds that have no email but the user's and no role but the user's roles;
\* no other team is deleted.
AfterTeams == pc \in {"policies", "orphanTeams", "orphanRoles", "user", "done"}
C20_DirectTeamDelete ==
  AfterTeams =>
    DeletedTeams =
      {t \in Range(teamIds) :
         /\ TeamEmails(store0, t) \ {U} = {}
         /\ TeamRoleIds(store0, t) \ Range(accessRoleIds) = {}}
C20_Witness ==
  /\ Done /\ ~dryrun
  /\ DeletedTeams # {}
  /\ \E t \in Range(teamIds) : t \notin DeletedTeams

\* ---------------------------------------- properties of the device-tag update
DevDone == dpc = "done"
RowsDone == {i \in 1..Len(rows_resolved) : i < idx}
PutsOf(i) == {k \in 1..Len(puts) : puts[k].row = i}
Matched(r) == r.error = PyNone /\ r.device_id \notin {PyNone, ""} /\ r.mac_matched
TagDiffers(r) == r.current_tag # r.new_tag

\* C17: in dry-run mode no put_device_tag call is made for any row, and every
\* row keeps updated_tag = None.
C17_DryRunSendsNoPut ==
  dry_run =>
    /\ puts = <<>>
    /\ \A i \in 1..Len(rows_resolved) : rows_resolved[i].updated_tag = <<>>
C17_Witness ==
  /\ DevDone /\ dry_run
  /\ \E i \in 1..Len(rows_resolved) :
       Matched(rows_resolved[i]) /\ TagDiffers(rows_resolved[i])

CsvMacs == {normalize_mac(csv[i].mac_address) : i \in 1..Len(csv)} \ {<<>>}
DeviceNormMacs(dev) ==
  {normalize_mac(dev.macAddresses[j]) : j \in 1..Len(dev.macAddresses)}
OnTwoDevices(m) ==
  \E i, j \in 1..Len(all_devices) :
    /\ all_devices[i].id # all_devices[j].id
    /\ m \in DeviceNormMacs(all_devices[i])
    /\ m \in DeviceNormMacs(all_devices[j])
C19_BlockedIffDuplicateInCsv ==
  dpc \in {"updates", "done"} /\ ~dry_run =>
    /\ apply_blocked <=> \E m \in CsvMacs : OnTwoDevices(m)
    /\ apply_blocked => puts = <<>>
    /\ ~apply_blocked =>
         \A i \in RowsDone :
           Matched(rows_resolved[i]) /\ TagDiffers(rows_resolved[i]) => PutsOf(i) # {}
C19_Witness ==
  /\ DevDone /\ ~dry_run /\ apply_blocked
  /\ \E i \in 1..Len(rows_resolved) :
       Matched(rows_resolved[i]) /\ TagDiffers(rows_resolved[i])
\* A run with a duplicate backend MAC outside the CSV in which a PUT is sent.
C19_DuplicateOutsideCsv ==
  /\ DevDone /\ ~dry_run /\ ~apply_blocked
  /\ puts # <<>>
  /\ \E i, j \in 1..Len(all_devices) :
       /\ i # j
       /\ DeviceNormMacs(all_devices[i]) \cap DeviceNormMacs(all_devices[j]) # {}

\* ------------------------------------------- properties of the purge, continued
LogIdx == 1..Len(log)
IsTeamUnlink(c) == c.kind = "Remove" /\ c.url = "teams/users"
IsRoleUnlink(c) == c.kind = "Remove" /\ c.url \in {"accessRoles/users", "accessRoles/teams"}
IsDelete(c, url) == c.kind = "Delete" /\ c.url = url

\* C21: every unlink that targets a team or a role precedes every delete that
\* targets it, and in the app/policy phase every application delete precedes
\* the delete of the application's policy.
C21_UnlinkBeforeDelete ==
  \A i, j \in LogIdx :
    /\ IsTeamUnlink(log[i]) /\ IsDelete(log[j], "teams") /\ log[i].id = log[j].id
         => i < j
    /\ IsRoleUnlink(log[i]) /\ IsDelete(log[j], "accessRoles") /\ log[i].id = log[j].id
         => i < j
    /\ ( /\ phase[i] = "apps" /\ phase[j] = "apps"
         /\ IsDelete(log[i], "applications") /\ IsDelete(log[j], "policies")
         /\ store0.appPolicy[log[i].id] = log[j].id )
         => i < j

\* C22: every team the orphan sweep unlinks the user from is also deleted by
\* the run, and every role with emails = {userId} and teamIds within the
\* user's teamIds at the sweep is deleted.
C22_OrphanSweepDeletes ==
  Done =>
    \A i \in LogIdx :
      phase[i] = "orphanTeams" => log[i].id \in Targets("Delete", "teams")

\* C23: the calls are made in six phases in a fixed order, each phase making
\* only its own kinds of call, and no call of an earlier phase follows a call
\* of a later one.
PhaseNumber(pcv) ==
  CASE pcv = "apps" -> 1
    [] pcv = "unlink" -> 2
    [] pcv = "teams" -> 3
    [] pcv = "policies" -> 4
    [] pcv \in {"orphanTeams", "orphanRoles"} -> 5
    [] OTHER -> 6
CallOfPhase(c, n) ==
  CASE n = 1 -> IsDelete(c, "applications") \/ IsDelete(c, "policies")
    [] n = 2 -> IsTeamUnlink(c) \/ IsRoleUnlink(c)
    [] n = 3 -> IsDelete(c, "teams") \/ IsDelete(c, "accessRoles")
    [] n = 4 -> (c.kind = "Update" /\ c.url = "policies") \/ IsDelete(c, "policies")
    [] n = 5 -> IsTeamUnlink(c) \/ IsDelete(c, "accessRoles")
    [] OTHER -> IsDelete(c, "users")
C23_SixPhasesInOrder ==
  /\ Len(phase) = Len(log)
  /\ \A i \in LogIdx : CallOfPhase(log[i], PhaseNumber(phase[i]))
  /\ \A i \in 1..(Len(log) - 1) : PhaseNumber(phase[i]) <= PhaseNumber(phase[i + 1])
C23_Witness ==
  Done /\ {PhaseNumber(phase[i]) : i \in LogIdx} = 1..6

\* C25: a policy none of whose rules holds a role of the user gets no delete
\* and no update, and no application that references it is deleted.
Unrelated(p) == RoleUnion(store0.policies[p]) \cap Range(UserRoleIds(store0)) = {}
C25_UnrelatedPolicyUntouched ==
  \A p \in DOMAIN store0.policies :
    Unrelated(p) =>
      \A i \in LogIdx :
        /\ ~(log[i].url = "policies" /\ log[i].id = p)
        /\ ~(IsDelete(log[i], "applications") /\ store0.appPolicy[log[i].id] = p)

\* C26: a team with another member and a role that both survive the run keep
\* the link they had.
C26_SurvivorsKeepLink ==
  Done /\ ~dryrun /\ AllApplied =>
    \A l \in store0.teamRole :
      /\ TeamEmails(store0, l[1]) \ {U} # {}
      /\ l[1] \in store.teams
      /\ l[2] \in store.roles
      => l \in store.teamRole

\* C27: no application, policy, team or role is the target of two deletes and
\* no user-team link is unlinked twice in one run.
C27_NoActionTwice ==
  \A i, j \in LogIdx :
    i < j =>
      ~ /\ log[i].id = log[j].id
        /\ \/ \E url \in {"applications", "policies", "teams", "accessRoles"} :
                IsDelete(log[i], url) /\ IsDelete(log[j], url)
           \/ IsTeamUnlink(log[i]) /\ IsTeamUnlink(log[j])

\* C28: a team or role that is not among the user's and does not list the user
\* is the target of no unlink and no delete.
UnrelatedTeam(t) == t \notin Range(UserTeamIds(store0)) /\ U \notin TeamEmails(store0, t)
UnrelatedRole(r) == r \notin Range(UserRoleIds(store0)) /\ U \notin RoleEmails(store0, r)
C28_UnrelatedNeverTargeted ==
  LET teams == {t \in Teams : UnrelatedTeam(t)}
      roles == {r \in Roles : UnrelatedRole(r)}
  IN \A i \in LogIdx :
       /\ log[i].url \in {"teams", "teams/users"} => log[i].id \notin teams
       /\ log[i].url \in {"accessRoles", "accessRoles/users", "accessRoles/teams"}
            => log[i].id \notin roles
       /\ log[i].url = "accessRoles/teams"
            => \A t \in Range(log[i].ids) : t \notin teams
C28_Witness ==
  /\ Done
  /\ \E t \in Teams : UnrelatedTeam(t)
  /\ \E r \in Roles : UnrelatedRole(r)
  /\ Targets("Delete", "teams") # {}
  /\ Targets("Delete", "accessRoles") # {}

\* C29: every application the run deletes has a policyId, and the run deletes
\* that policy.
C29_DeletedAppHasDeletedPolicy ==
  \A i \in LogIdx :
    IsDelete(log[i], "applications") =>
      /\ store0.appPolicy[log[i].id] # NoPolicy
      /\ store0.appPolicy[log[i].id] \in Targets("Delete", "policies")
C29_Witness ==
  /\ Done /\ ~dryrun
  /\ Targets("Delete", "applications") # {}
  /\ \E a \in DOMAIN store.appPolicy : store.appPolicy[a] \in DOMAIN store.policies

\* C30: the policy sweep updates no policy it deletes, and every update payload
\* has at least one rule, no rule with an empty accessRoleIds, no role of the
\* user, the surviving rules in their original order, and no id field.
SurvivingRules(rules, userRoles) ==
  SelectSeq([k \in 1..Len(rules) |-> rules[k] \ userRoles], LAMBDA r : r # {})
C30_SweepUpdatePayload ==
  \A i \in LogIdx :
    log[i].kind = "Update" =>
      /\ phase[i] = "policies"
      /\ \A j \in LogIdx :
           phase[j] = "policies" /\ IsDelete(log[j], "policies") => log[j].id # log[i].id
      /\ log[i].rules # <<>>
      /\ \A k \in 1..Len(log[i].rules) :
           log[i].rules[k] # {} /\ log[i].rules[k] \cap Range(accessRoleIds) = {}
      /\ log[i].rules =
           SurvivingRules(store0.policies[log[i].id], Range(accessRoleIds))
      /\ "id" \notin DOMAIN log[i].data
      /\ log[i].data.rules = log[i].rules
C30_Witness ==
  /\ Done /\ ~dryrun
  /\ \E i \in LogIdx :
       /\ log[i].kind = "Update"
       /\ Len(log[i].rules) < Len(store0.policies[log[i].id])

\* C24: in apply mode a PUT that fails leaves its row with update_error =
\* 'Error' and updated_tag = None, the rows after it are still processed, and
\* a row has updated_tag = new_tag only if its own PUT succeeded.
C24_FailedPutDoesNotStop ==
  /\ \A k \in 1..Len(puts) :
       LET r == rows_resolved[puts[k].row]
       IN IF puts[k].ok
          THEN r.updated_tag = <<r.new_tag>> /\ r.update_error = PyNone
          ELSE r.updated_tag = <<>> /\ r.update_error = "Error"
  /\ \A i \in 1..Len(rows_resolved) :
       rows_resolved[i].updated_tag # <<>> => \E k \in PutsOf(i) : puts[k].ok
  /\ DevDone =>
       /\ idx = Len(rows_resolved) + 1
       /\ ~dry_run /\ ~apply_blocked =>
            \A i \in 1..Len(rows_resolved) :
              Matched(rows_resolved[i]) /\ TagDiffers(rows_resolved[i])
                => PutsOf(i) # {}
C24_Witness ==
  /\ DevDone
  /\ Len(puts) >= 2
  /\ ~puts[1].ok
  /\ puts[2].ok
  /\ Status(rows_resolved[puts[1].row]) = "Error"
  /\ Status(rows_resolved[puts[2].row]) = "Updated"
====
